---------------------------- MODULE Spec2Model ----------------------------
(***************************************************************************)
(* LEMMA substitution-classifier training scripts.                         *)
(*                                                                         *)
(* Three runs are modelled, selected by `script`:                          *)
(*   "production"  scripts/production_train.py  (gradient accumulation,    *)
(*                  early stopping on F1 with min_delta, in-memory best)   *)
(*   "colab_fixed" scripts/train_colab_fixed.py (gradient accumulation,    *)
(*                  mixed precision with a GradScaler, periodic saves)     *)
(*   "mathbert"    scripts/train_mathbert.py    (one step per batch,       *)
(*                  early stopping on accuracy, best model on disk)        *)
(*                                                                         *)
(* Numbers: metrics and probabilities are in thousandths (0.5 = 500);      *)
(* gradients are integers in units of 1/GradUnit, so that the division of  *)
(* the loss by accumulation_steps is exact; the loss scale of the          *)
(* GradScaler is kept as its base-2 logarithm.  The scorer is opaque: its  *)
(* parameter tensor is [v, fin], v the number of optimizer updates that    *)
(* produced it (every update yields a new value) and fin whether all its   *)
(* entries are finite.                                                     *)
(*                                                                         *)
(* Further specifications cover the parts around the training loop:        *)
(* evaluate and compute_metrics, the Dataset label encoding, checkpoint    *)
(* files, the periodic checkpoints of the two colab scripts, and the       *)
(* export step of every script that writes an ONNX file.                   *)
(***************************************************************************)
EXTENDS Integers, Sequences, FiniteSets, TLC

(***************************************************************************)
(* Bounds of the model                                                     *)
(***************************************************************************)
MaxBatches == 2
MaxK == 2
MaxEpochs == 3
MaxPatience == 2
GrowthInterval == 2
MaxStore == 17
MaxExamples == 2
MaxLabels == 3
MaxCells == 6
MaxVocab == 3
MaxSubs == 3
MaxPeriodicEpochs == 5

(***************************************************************************)
(* Program constants                                                       *)
(***************************************************************************)
MaxNorm == 1
Threshold == 500
SaveEveryNEpochs == 2
SaveEvery1m == 5
LossInf == 1000000
InitScaleLog2 == 16

Scripts == {"production", "colab_fixed", "mathbert"}
\* scripts whose train_epoch zeroes the gradients and steps at every batch;
\* "colab_1m" is scripts/train_colab_1m.py (periodic saves, best by loss)
PerBatchScripts == {"mathbert", "colab_1m"}
\* min_delta and the metric values an evaluation may return, in thousandths.
MinDeltas == {0, 10}
MetricVals == {0, 500, 510}

(***************************************************************************)
(* Arithmetic helpers                                                      *)
(***************************************************************************)
Abs(x) == IF x < 0 THEN 0 - x ELSE x

RECURSIVE Pow2(_)
Pow2(n) == IF n <= 0 THEN 1 ELSE 2 * Pow2(n - 1)

RECURSIVE Gcd(_, _)
Gcd(a, b) == IF b = 0 THEN a ELSE Gcd(b, a % b)

RECURSIVE LcmUpTo(_)
LcmUpTo(n) == IF n <= 1 THEN 1 ELSE (LcmUpTo(n - 1) * n) \div Gcd(LcmUpTo(n - 1), n)

\* One unit of gradient norm (1.0) in model integers.
GradUnit == LcmUpTo(MaxK)

\* Gradients of the unscaled mean batch loss: norm 1.0 and norm 3.0.
RawGrads == {GradUnit, 0 - 3 * GradUnit}

VARIABLES
    script, L, K, patience, min_delta, epochs,   \* run configuration
    pc, epoch, i,                                \* position of the control thread
    tensors,                                     \* heap: tensor id -> value
    grad,                                        \* .grad of the parameters
    opt_steps,                                   \* optimizer state: updates applied
    sched_steps,                                 \* scheduler step counter
    scale_log2, growth_tracker,                  \* GradScaler state
    val_metric, best_metric, patience_counter,
    best_model_state,                            \* production: in-memory best
    best_file,                                   \* disk: best model file
    ckpts,                                       \* disk: periodic checkpoints
    stopped_early, exported,
    ops,                                         \* calls issued by the last loop body
    step_grad, step_acc, step_inf,               \* history of the last step block
    best_params,                                 \* history: parameters at the best epoch
    nan_batch, ep_step_calls, ep_sched, ep_zero,
    store_size, acc_runs,                        \* accumulation comparison
    ev_script, num_labels, ev_pc,                \* evaluation pass
    in_logits, in_labels,                        \* history: the batches evaluated
    all_preds, all_labels, correct, total,       \* accumulators of evaluate
    pred_bin,                                    \* the latest 0/1 predictions
    metrics,
    dataset,                                     \* the Dataset object
    item,                                        \* one __getitem__ call
    ck,                                          \* a checkpoint file and the model it is loaded into
    out,                                         \* the export step of a run and its output directory
    loader,                                      \* a DataLoader with worker processes
    flt,                                         \* one filter_problems call
    feed                                         \* the examples of a run on their way into batches

cfgvars == <<script, L, K, patience, min_delta, epochs>>
trainvars == <<tensors, grad, opt_steps, sched_steps, scale_log2, growth_tracker>>
selvars == <<val_metric, best_metric, patience_counter, best_model_state,
             best_file, ckpts, stopped_early, exported>>
histvars == <<ops, step_grad, step_acc, step_inf, best_params, nan_batch,
              ep_step_calls, ep_sched, ep_zero>>
mainvars == <<cfgvars, pc, epoch, i, trainvars, selvars, histvars>>
accvars == <<store_size, acc_runs>>
evvars == <<ev_script, num_labels, ev_pc, in_logits, in_labels, all_preds,
            all_labels, correct, total, pred_bin, metrics>>
encvars == <<dataset, item>>
restvars == <<loader, flt, feed>>
auxvars == <<encvars, ck, out, restvars>>
vars == <<mainvars, accvars, evvars, auxvars>>

(***************************************************************************)
(* Tensors and gradients                                                   *)
(***************************************************************************)
\* A gradient value: mantissa m, scaled by 2^e, fin = all entries finite.
\* n counts the backward passes accumulated since the last zero_grad.
ZeroGrad == [m |-> 0, e |-> 0, fin |-> TRUE, n |-> 0]

Params == tensors.w

\* loss = loss / accumulation_steps
ScaleLossNone(g, k) == g
ScaleLoss(g, k) == g \div k

\* loss.backward(): the gradient of the (scaled) loss is added to .grad;
\* a non-finite loss makes every gradient non-finite.
Backward(acc, g, lossFinite, e) ==
    [m |-> acc.m + g, e |-> e, fin |-> acc.fin /\ lossFinite, n |-> acc.n + 1]

\* if (i + 1) % accumulation_steps == 0, i the 0-based enumerate index
StepPointOffByOne(idx, k) == idx % k = 0
StepPoint(idx, k) == (idx + 1) % k = 0

\* ||g|| > c * 1.0 for g = m * 2^e
NormExceeds(g, c) ==
    IF g.e >= 0 THEN Abs(g.m) > (c * GradUnit) \div Pow2(g.e)
                ELSE Abs(g.m) > c * GradUnit * Pow2(0 - g.e)

\* torch.nn.utils.clip_grad_norm_(model.parameters(), 1.0): gradients of a
\* norm above max_norm are rescaled to max_norm; a non-finite norm leaves
\* them non-finite.
ClipGradNorm(g, c) ==
    IF ~g.fin THEN g
    ELSE IF NormExceeds(g, c)
         THEN [g EXCEPT !.m = (IF g.m < 0 THEN 0 - 1 ELSE 1) *
                              (IF g.e >= 0 THEN (c * GradUnit) \div Pow2(g.e)
                                           ELSE c * GradUnit * Pow2(0 - g.e))]
         ELSE g

\* optimizer.step(): an in-place update of the parameter tensor.
OptimizerStep(p, g) == [v |-> p.v + 1, fin |-> p.fin /\ g.fin]

\* scaler.unscale_(optimizer): gradients are divided by the scale in place.
Unscale(g, s) == [g EXCEPT !.e = g.e - s]

\* scaler.update(): halve on overflow, double after growth_interval clean steps.
ScalerUpdate(s, tracker, foundInf) ==
    IF foundInf THEN [scale |-> s - 1, tracker |-> 0]
    ELSE IF tracker + 1 = GrowthInterval THEN [scale |-> s + 1, tracker |-> 0]
    ELSE [scale |-> s, tracker |-> tracker + 1]

(***************************************************************************)
(* Model selection                                                         *)
(***************************************************************************)
\* val_metrics["f1"] > best_f1 + CONFIG["min_delta"]
ImprovedGeq(f, best, delta) == f >= best + delta
Improved(f, best, delta) == f > best + delta

\* patience_counter >= CONFIG["patience"]
PatienceExhaustedGt(c, p) == c > p
PatienceExhausted(c, p) == c >= p

\* model.state_dict().copy(): a new dict whose values are the live parameter
\* tensors themselves (state_dict() detaches, it does not clone).
NoState == [has |-> FALSE, weight |-> "w"]
StateDictCopy == [has |-> TRUE, weight |-> "w"]

\* model.load_state_dict(sd): copies sd's tensors into the parameters.
LoadStateDict(t, sd) == [t EXCEPT !.w = t[sd.weight]]

NoFile == [exists |-> FALSE, v |-> 0, fin |-> TRUE]
SavedFile(p) == [exists |-> TRUE, v |-> p.v, fin |-> p.fin]

(***************************************************************************)
(* Initial state: after the model, loaders, optimizer and scheduler are    *)
(* constructed, before the first epoch.                                    *)
(***************************************************************************)
InitRun ==
    /\ pc = "epoch_start" /\ epoch = 0 /\ i = 0
    /\ tensors = [w |-> [v |-> 0, fin |-> TRUE]]
    /\ grad = ZeroGrad
    /\ opt_steps = 0 /\ sched_steps = 0
    /\ scale_log2 = InitScaleLog2 /\ growth_tracker = 0
    /\ val_metric = 0 /\ patience_counter = 0
    /\ best_metric = (IF script = "colab_1m" THEN LossInf ELSE 0)
    /\ best_model_state = NoState
    /\ best_file = NoFile
    /\ ckpts = {}
    /\ stopped_early = FALSE /\ exported = FALSE
    /\ ops = <<>>
    /\ step_grad = ZeroGrad /\ step_acc = 0 /\ step_inf = FALSE
    /\ best_params = [v |-> 0, fin |-> TRUE]
    /\ nan_batch = FALSE
    /\ ep_step_calls = 0 /\ ep_sched = 0 /\ ep_zero = 0

InitCfg ==
    /\ script \in Scripts
    /\ L \in 1..MaxBatches
    /\ epochs = MaxEpochs
    /\ K \in (IF script = "mathbert" THEN {1} ELSE 1..MaxK)
    /\ patience \in (IF script = "colab_fixed" THEN {MaxEpochs + 1} ELSE 1..MaxPatience)
    /\ min_delta \in (IF script = "production" THEN MinDeltas ELSE {0})

\* The parts of the state a specification does not exercise.
IdleAcc ==
    /\ store_size = 0
    /\ acc_runs = <<>>

IdleEval ==
    /\ ev_script = "production" /\ num_labels = 0 /\ ev_pc = "idle"
    /\ in_logits = <<>> /\ in_labels = <<>>
    /\ all_preds = <<>> /\ all_labels = <<>>
    /\ correct = 0 /\ total = 0
    /\ pred_bin = <<>>
    /\ metrics = [exact |-> [num |-> 0, den |-> 0]]

NoItem == [pc |-> "none", subs |-> <<>>, pos |-> 0, label |-> <<>>]

IdleEnc ==
    /\ dataset = [script |-> "production", vocab |-> <<>>, built |-> FALSE,
                  vocab_to_idx |-> <<>>]
    /\ item = NoItem

NoCkptFile == [exists |-> FALSE, encoder |-> "none", classifier |-> <<>>]

IdleCk ==
    ck = [pc |-> "idle", saved_vocab |-> <<>>, run_vocab |-> <<>>,
          file |-> NoCkptFile, model |-> NoCkptFile]

NoArtifact == [exists |-> FALSE, inputs |-> <<>>, outputs |-> <<>>, diff |-> 0]
NoSidecar == [exists |-> FALSE, kind |-> "none", labels |-> <<>>]

IdleOut ==
    out = [script |-> "production", vocab |-> <<>>, pos |-> 0,
           onnx |-> NoArtifact, sidecar |-> NoSidecar, report |-> "none"]

IdleLoader ==
    loader = [pc |-> "idle", n |-> 0, bs |-> 1, perm |-> <<>>, send_idx |-> 0,
              rcvd_idx |-> 0, next_worker |-> 1, index_queues |-> <<>>,
              data_queue |-> <<>>, task_info |-> {}, delivered |-> <<>>,
              epoch |-> 0, reordered |-> FALSE]

IdleFilter ==
    flt = [pc |-> "idle", problems |-> <<>>, categories |-> [none |-> TRUE, val |-> {}],
           years |-> [none |-> TRUE, lo |-> 0, hi |-> 0], max_count |-> 0,
           filtered |-> <<>>]

IdleFeed ==
    feed = [pc |-> "idle", script |-> "mathbert", data |-> <<>>, pos |-> 0,
            encoded |-> <<>>, skipped |-> 0]

IdleRest == IdleLoader /\ IdleFilter /\ IdleFeed

IdleAux == IdleEnc /\ IdleCk /\ IdleOut /\ IdleRest

IdleMain ==
    /\ script = "production" /\ L = 1 /\ K = 1 /\ patience = 1
    /\ min_delta = 0 /\ epochs = 1
    /\ InitRun

Init == InitCfg /\ InitRun /\ IdleAcc /\ IdleEval /\ IdleAux

(***************************************************************************)
(* The loop bodies of train_epoch, as the statements they execute.         *)
(***************************************************************************)
\* model.train(); optimizer.zero_grad() before the loop
EpochPrologue(sc) == IF sc \in PerBatchScripts THEN <<>> ELSE <<"zero_grad">>

\* statements of the loop body before the forward pass
BodyPrologue(sc) == IF sc \in PerBatchScripts THEN <<"zero_grad">> ELSE <<>>

\* statements after loss.backward() when the batch is a step point
StepBlockStepFirst(sc) ==
    IF sc = "colab_fixed"
    THEN <<"clip", "unscale", "scaler_step", "update", "sched", "zero_grad">>
    ELSE IF sc = "production" THEN <<"step", "clip", "sched", "zero_grad">>
    ELSE <<"step", "clip", "sched">>
StepBlock(sc) ==
    IF sc = "colab_fixed"
    THEN <<"unscale", "clip", "scaler_step", "update", "sched", "zero_grad">>
    ELSE IF sc = "production" THEN <<"clip", "step", "sched", "zero_grad">>
    ELSE <<"clip", "step", "sched">>

\* whether the batch with 0-based index idx ends with the step block
IsStepBatch(sc, idx, k) == IF sc \in PerBatchScripts THEN TRUE ELSE StepPoint(idx, k)

\* The state the statements act on.
Local ==
    [tensors |-> tensors, grad |-> grad, opt_steps |-> opt_steps,
     sched_steps |-> sched_steps, scale |-> scale_log2, tracker |-> growth_tracker,
     found_inf |-> FALSE, unscaled |-> FALSE,
     ops |-> <<>>, acc_true |-> 0,
     step_grad |-> step_grad, step_acc |-> step_acc, step_inf |-> step_inf,
     nan |-> nan_batch,
     ep_step_calls |-> ep_step_calls, ep_sched |-> ep_sched, ep_zero |-> ep_zero]

\* optimizer.step() on the current gradients
ApplyStep(s) ==
    [s EXCEPT !.tensors = [s.tensors EXCEPT !.w = OptimizerStep(s.tensors.w, s.grad)],
              !.opt_steps = s.opt_steps + 1,
              !.step_grad = s.grad,
              !.step_acc = s.acc_true]

\* scaler.step(optimizer): unscales if unscale_ was not called, and calls
\* optimizer.step() only if no gradient is inf or NaN.
ScalerStep(s) ==
    LET u == IF s.unscaled THEN s
             ELSE [s EXCEPT !.grad = Unscale(s.grad, s.scale),
                            !.found_inf = ~s.grad.fin, !.unscaled = TRUE]
    IN IF u.found_inf THEN u ELSE ApplyStep(u)

Exec(s0, op) ==
    LET s == [s0 EXCEPT !.ops = Append(s0.ops, op)]
    IN CASE op = "zero_grad" ->
              [s EXCEPT !.grad = ZeroGrad, !.ep_zero = s.ep_zero + 1]
         [] op = "unscale" ->
              [s EXCEPT !.grad = Unscale(s.grad, s.scale),
                        !.found_inf = ~s.grad.fin, !.unscaled = TRUE]
         [] op = "clip" ->
              [s EXCEPT !.grad = ClipGradNorm(s.grad, MaxNorm)]
         [] op = "step" ->
              [ApplyStep(s) EXCEPT !.ep_step_calls = s.ep_step_calls + 1]
         [] op = "scaler_step" ->
              LET u == ScalerStep(s)
              IN [u EXCEPT !.ep_step_calls = s.ep_step_calls + 1,
                           !.step_inf = u.found_inf]
         [] op = "update" ->
              LET u == ScalerUpdate(s.scale, s.tracker, s.found_inf)
              IN [s EXCEPT !.scale = u.scale, !.tracker = u.tracker,
                           !.found_inf = FALSE, !.unscaled = FALSE]
         [] op = "sched" ->
              [s EXCEPT !.sched_steps = s.sched_steps + 1,
                        !.ep_sched = s.ep_sched + 1]

RECURSIVE Run(_, _)
Run(prog, s) == IF prog = <<>> THEN s ELSE Run(Tail(prog), Exec(s, Head(prog)))

\* forward pass, loss / accumulation_steps, (scaled) backward pass
ForwardBackward(s, g, lossFinite, gradFinite, sc, k) ==
    LET e == IF sc = "colab_fixed" THEN s.scale ELSE 0
        d == IF sc \in PerBatchScripts THEN g ELSE ScaleLoss(g, k)
        acc == Backward(s.grad, d, lossFinite /\ gradFinite, e)
    IN [s EXCEPT !.grad = acc,
                 !.acc_true = acc.m,
                 !.nan = s.nan \/ ~lossFinite,
                 !.ops = Append(s.ops, "backward")]

\* one iteration of the loop of train_epoch
LoopBody(s, g, lossFinite, gradFinite, sc, idx, k) ==
    LET a == Run(BodyPrologue(sc), s)
        b == ForwardBackward(a, g, lossFinite, gradFinite, sc, k)
    IN IF IsStepBatch(sc, idx, k) THEN Run(StepBlock(sc), b) ELSE b

Commit(s) ==
    /\ tensors' = s.tensors
    /\ grad' = s.grad
    /\ opt_steps' = s.opt_steps
    /\ sched_steps' = s.sched_steps
    /\ scale_log2' = s.scale
    /\ growth_tracker' = s.tracker
    /\ ops' = s.ops
    /\ step_grad' = s.step_grad
    /\ step_acc' = s.step_acc
    /\ step_inf' = s.step_inf
    /\ nan_batch' = s.nan
    /\ ep_step_calls' = s.ep_step_calls
    /\ ep_sched' = s.ep_sched
    /\ ep_zero' = s.ep_zero

(***************************************************************************)
(* Actions                                                                 *)
(***************************************************************************)
\* train_epoch is entered: model.train(), optimizer.zero_grad()
StartEpoch ==
    /\ pc = "epoch_start"
    /\ Commit(Run(EpochPrologue(script),
                  [Local EXCEPT !.ep_step_calls = 0, !.ep_sched = 0, !.ep_zero = 0]))
    /\ i' = 0
    /\ pc' = "batches"
    /\ UNCHANGED <<cfgvars, epoch, selvars, best_params>>
    /\ UNCHANGED <<accvars, evvars, auxvars>>

\* one batch of the training loader: g is the gradient of its unscaled
\* loss, bad a corrupted input (NaN loss), ovf an overflow of the scaled
\* gradients in reduced precision.
TrainBatch(g, bad, ovf) ==
    /\ pc = "batches"
    /\ i < L
    /\ ovf => script = "colab_fixed"
    /\ Commit(LoopBody(Local, g, ~bad /\ Params.fin, ~ovf, script, i, K))
    /\ i' = i + 1
    /\ pc' = IF i + 1 = L THEN "eval" ELSE "batches"
    /\ UNCHANGED <<cfgvars, epoch, selvars, best_params>>
    /\ UNCHANGED <<accvars, evvars, auxvars>>

\* production_train.main: evaluate, then the early-stopping check
EvalSelectProduction(f) ==
    /\ pc = "eval"
    /\ script = "production"
    /\ val_metric' = f
    /\ IF Improved(f, best_metric, min_delta)
       THEN /\ best_metric' = f
            /\ patience_counter' = 0
            /\ best_model_state' = StateDictCopy
            /\ best_params' = Params
            /\ stopped_early' = FALSE
       ELSE /\ patience_counter' = patience_counter + 1
            /\ stopped_early' = PatienceExhausted(patience_counter + 1, patience)
            /\ UNCHANGED <<best_metric, best_model_state, best_params>>
    /\ epoch' = epoch + 1
    /\ pc' = IF stopped_early' \/ epoch + 1 = epochs THEN "after_loop" ELSE "epoch_start"
    /\ UNCHANGED <<cfgvars, i, trainvars, best_file, ckpts, exported>>
    /\ UNCHANGED <<ops, step_grad, step_acc, step_inf, nan_batch, ep_step_calls, ep_sched,
                   ep_zero>>
    /\ UNCHANGED <<accvars, evvars, auxvars>>

\* num_training_steps the schedule is constructed with, from
\* l = len(train_loader), e = CONFIG["epochs"], k = gradient_accumulation
TotalStepsOneEpoch(sc, l, e, k) == l \div k
TotalSteps(sc, l, e, k) ==
    CASE sc = "production" -> (l * e) \div k
      [] sc = "colab_fixed" -> (l \div k) * e
      [] sc \in PerBatchScripts -> l * e

\* if epoch % CONFIG["save_every_n_epochs"] == 0, epoch counted from 1
SaveCheckpointDueFromZero(e, n) == (e - 1) % n = 0
SaveCheckpointDue(e, n) == e % n = 0

\* train_colab_fixed.main: evaluate, periodic checkpoint, best model by F1
EvalSelectColab(f) ==
    /\ pc = "eval"
    /\ script = "colab_fixed"
    /\ val_metric' = f
    /\ ckpts' = IF SaveCheckpointDue(epoch + 1, SaveEveryNEpochs)
                THEN ckpts \cup {epoch + 1}
                ELSE ckpts
    /\ IF f > best_metric
       THEN /\ best_metric' = f
            /\ best_file' = SavedFile(Params)
            /\ best_params' = Params
       ELSE UNCHANGED <<best_metric, best_file, best_params>>
    /\ epoch' = epoch + 1
    /\ pc' = IF epoch + 1 = epochs THEN "after_loop" ELSE "epoch_start"
    /\ UNCHANGED <<cfgvars, i, trainvars, patience_counter, best_model_state,
                   stopped_early, exported>>
    /\ UNCHANGED <<ops, step_grad, step_acc, step_inf, nan_batch, ep_step_calls, ep_sched,
                   ep_zero>>
    /\ UNCHANGED <<accvars, evvars, auxvars>>

\* train_colab_1m.main: evaluate, periodic checkpoint, best model by
\* validation loss
EvalSelectColab1m(loss) ==
    /\ pc = "eval"
    /\ script = "colab_1m"
    /\ val_metric' = loss
    /\ ckpts' = IF SaveCheckpointDue(epoch + 1, SaveEvery1m)
                THEN ckpts \cup {epoch + 1}
                ELSE ckpts
    /\ IF loss < best_metric
       THEN /\ best_metric' = loss
            /\ best_file' = SavedFile(Params)
            /\ best_params' = Params
       ELSE UNCHANGED <<best_metric, best_file, best_params>>
    /\ epoch' = epoch + 1
    /\ pc' = IF epoch + 1 = epochs THEN "after_loop" ELSE "epoch_start"
    /\ UNCHANGED <<cfgvars, i, trainvars, patience_counter, best_model_state,
                   stopped_early, exported>>
    /\ UNCHANGED <<ops, step_grad, step_acc, step_inf, nan_batch, ep_step_calls, ep_sched,
                   ep_zero>>
    /\ UNCHANGED <<accvars, evvars, auxvars>>

\* train_mathbert.main: evaluate, then early stopping on accuracy
EvalSelectMathbert(f) ==
    /\ pc = "eval"
    /\ script = "mathbert"
    /\ val_metric' = f
    /\ IF f > best_metric
       THEN /\ best_metric' = f
            /\ patience_counter' = 0
            /\ best_file' = SavedFile(Params)
            /\ best_params' = Params
            /\ stopped_early' = FALSE
       ELSE /\ patience_counter' = patience_counter + 1
            /\ stopped_early' = PatienceExhausted(patience_counter + 1, patience)
            /\ UNCHANGED <<best_metric, best_file, best_params>>
    /\ epoch' = epoch + 1
    /\ pc' = IF stopped_early' \/ epoch + 1 = epochs THEN "after_loop" ELSE "epoch_start"
    /\ UNCHANGED <<cfgvars, i, trainvars, best_model_state, ckpts, exported>>
    /\ UNCHANGED <<ops, step_grad, step_acc, step_inf, nan_batch, ep_step_calls, ep_sched,
                   ep_zero>>
    /\ UNCHANGED <<accvars, evvars, auxvars>>

\* after the epoch loop: restore the best model, final evaluation, save
\* the vocabulary and export
Finish ==
    /\ pc = "after_loop"
    /\ CASE script = "production" ->
              /\ tensors' = IF best_model_state.has
                            THEN LoadStateDict(tensors, best_model_state)
                            ELSE tensors
              /\ exported' = TRUE
              /\ pc' = "done"
         [] script = "mathbert" ->
              IF best_file.exists
              THEN /\ tensors' = [tensors EXCEPT !.w = [v |-> best_file.v,
                                                         fin |-> best_file.fin]]
                   /\ exported' = TRUE
                   /\ pc' = "done"
              ELSE /\ pc' = "crashed"
                   /\ UNCHANGED <<tensors, exported>>
         [] script = "colab_fixed" ->
              /\ pc' = "done"
              /\ UNCHANGED <<tensors, exported>>
         [] script = "colab_1m" ->
              /\ pc' = "done"
              /\ exported' \in BOOLEAN
              /\ UNCHANGED tensors
    /\ UNCHANGED <<cfgvars, epoch, i, grad, opt_steps, sched_steps, scale_log2,
                   growth_tracker>>
    /\ UNCHANGED <<val_metric, best_metric, patience_counter, best_model_state,
                   best_file, ckpts, stopped_early>>
    /\ UNCHANGED <<ops, step_grad, step_acc, step_inf, best_params, nan_batch,
                   ep_step_calls, ep_sched, ep_zero>>
    /\ UNCHANGED <<accvars, evvars, auxvars>>

Next ==
    \/ StartEpoch
    \/ \E g \in RawGrads, bad \in BOOLEAN, ovf \in BOOLEAN : TrainBatch(g, bad, ovf)
    \/ \E f \in MetricVals : EvalSelectProduction(f)
    \/ \E f \in MetricVals : EvalSelectColab(f)
    \/ \E f \in MetricVals : EvalSelectMathbert(f)
    \/ Finish

Spec == Init /\ [][Next]_vars

(***************************************************************************)
(* The two scripts with periodic checkpoints, run for enough epochs that   *)
(* both periods elapse, one batch per epoch.                               *)
(***************************************************************************)
PeriodicScripts == {"colab_fixed", "colab_1m"}
LossVals == {300, 400}

SaveEvery(sc) == IF sc = "colab_1m" THEN SaveEvery1m ELSE SaveEveryNEpochs

InitPeriodic ==
    /\ script \in PeriodicScripts
    /\ L = 1 /\ K = 1
    /\ epochs = MaxPeriodicEpochs
    /\ patience = MaxPeriodicEpochs + 1
    /\ min_delta = 0
    /\ InitRun /\ IdleAcc /\ IdleEval /\ IdleAux

NextPeriodic ==
    \/ StartEpoch
    \/ \E g \in RawGrads, ovf \in BOOLEAN : TrainBatch(g, FALSE, ovf)
    \/ \E f \in MetricVals : EvalSelectColab(f)
    \/ \E loss \in LossVals : EvalSelectColab1m(loss)
    \/ Finish

SpecPeriodic == InitPeriodic /\ [][NextPeriodic]_vars

(***************************************************************************)
(* An external stop signal.  No script installs a signal handler or tests  *)
(* a deadline, so the signal is Python's KeyboardInterrupt, raised in the  *)
(* main thread between two statements and not caught: the process halts    *)
(* where it is.                                                            *)
(***************************************************************************)
InterruptScripts == {"production", "colab_1m"}

InitInterrupt ==
    /\ script \in InterruptScripts
    /\ L \in 1..MaxBatches
    /\ epochs = MaxEpochs
    /\ K \in (IF script = "colab_1m" THEN {1} ELSE 1..MaxK)
    /\ patience \in (IF script = "colab_1m" THEN {MaxEpochs + 1} ELSE 1..MaxPatience)
    /\ min_delta = 0
    /\ InitRun /\ IdleAcc /\ IdleEval /\ IdleAux

\* the signal arrives between two batches, or between training and
\* evaluation
InterruptAtBoundary ==
    /\ pc \in {"epoch_start", "batches", "eval"}
    /\ pc' = "interrupted"
    /\ UNCHANGED <<cfgvars, epoch, i, trainvars, selvars, histvars>>
    /\ UNCHANGED <<accvars, evvars, auxvars>>

\* the signal arrives in the step block of a batch, after n of its
\* statements
InterruptInStepBlock(g, n) ==
    /\ pc = "batches"
    /\ i < L
    /\ IsStepBatch(script, i, K)
    /\ n < Len(StepBlock(script))
    /\ LET a == Run(BodyPrologue(script), Local)
           b == ForwardBackward(a, g, Params.fin, TRUE, script, K)
       IN Commit(Run(SubSeq(StepBlock(script), 1, n), b))
    /\ pc' = "interrupted_in_step"
    /\ UNCHANGED <<cfgvars, epoch, i, selvars, best_params>>
    /\ UNCHANGED <<accvars, evvars, auxvars>>

NextInterrupt ==
    \/ StartEpoch
    \/ \E g \in RawGrads : TrainBatch(g, FALSE, FALSE)
    \/ \E f \in MetricVals : EvalSelectProduction(f)
    \/ \E loss \in LossVals : EvalSelectColab1m(loss)
    \/ Finish
    \/ InterruptAtBoundary
    \/ \E g \in RawGrads, n \in 0..3 : InterruptInStepBlock(g, n)

SpecInterrupt == InitInterrupt /\ [][NextInterrupt]_vars

(***************************************************************************)
(* The early-stopping example: production_train.main with patience 2 and   *)
(* min_delta 0.01, whose evaluations return 0.50, 0.50, 0.505, 0.504.      *)
(***************************************************************************)
F1Feed == <<500, 500, 505, 504>>

InitFeed ==
    /\ script = "production"
    /\ L \in 1..MaxBatches
    /\ K \in 1..MaxK
    /\ epochs = Len(F1Feed)
    /\ patience = 2
    /\ min_delta = 10
    /\ InitRun /\ IdleAcc /\ IdleEval /\ IdleAux

NextFeed ==
    \/ StartEpoch
    \/ \E g \in RawGrads, bad \in BOOLEAN : TrainBatch(g, bad, FALSE)
    \/ EvalSelectProduction(F1Feed[epoch + 1])
    \/ Finish

SpecFeed == InitFeed /\ [][NextFeed]_vars

(***************************************************************************)
(* Gradient accumulation: one epoch of train_epoch over the same ordered   *)
(* example store under two configurations.  A gradient is kept as the      *)
(* coefficient of every example's gradient in it, in units of 1/AccDenom.  *)
(***************************************************************************)
RunCfg == [A |-> [bs |-> 8, K |-> 1], B |-> [bs |-> 4, K |-> 2]]
RunIds == {"A", "B"}
AccDenom == LcmUpTo(RunCfg.A.bs) * RunCfg.A.K * RunCfg.B.K

\* len(DataLoader(dataset, batch_size=bs)): the last batch may be undersized
NumBatches(n, bs) == (n + bs - 1) \div bs

\* the examples of the batch with 0-based index idx
BatchOf(n, bs, idx) == {x \in 1..n : idx * bs < x /\ x <= (idx + 1) * bs}

\* nn.BCEWithLogitsLoss(): the mean over the batch
MeanLossGrad(n, batch) ==
    [x \in 1..n |-> IF x \in batch THEN AccDenom \div Cardinality(batch) ELSE 0]

VecZero(n) == [x \in 1..n |-> 0]
VecAdd(a, b) == [x \in DOMAIN a |-> a[x] + b[x]]
VecScaleLoss(a, k) == [x \in DOMAIN a |-> ScaleLoss(a[x], k)]

InitAcc ==
    /\ store_size \in 1..MaxStore
    /\ acc_runs = [r \in RunIds |-> [i |-> 0, grad |-> VecZero(store_size), steps |-> <<>>]]
    /\ IdleMain /\ IdleEval /\ IdleAux

\* one iteration of the loop of train_epoch in run r
AccBatch(r) ==
    LET run == acc_runs[r]
        cfg == RunCfg[r]
        batch == BatchOf(store_size, cfg.bs, run.i)
        micro == VecScaleLoss(MeanLossGrad(store_size, batch), cfg.K)
        acc == VecAdd(run.grad, micro)
        step == StepPoint(run.i, cfg.K)
    IN /\ run.i < NumBatches(store_size, cfg.bs)
       /\ acc_runs' = [acc_runs EXCEPT ![r] =
              [i |-> run.i + 1,
               grad |-> IF step THEN VecZero(store_size) ELSE acc,
               steps |-> IF step THEN Append(run.steps, acc) ELSE run.steps]]
       /\ UNCHANGED <<store_size, mainvars, evvars, auxvars>>

NextAcc == \E r \in RunIds : AccBatch(r)

SpecAcc == InitAcc /\ [][NextAcc]_vars

(***************************************************************************)
(* Evaluation: one pass of evaluate over the validation loader, one        *)
(* example per batch.  A matrix is a sequence of rows, a row a sequence    *)
(* over the labels.  A mean is kept as the fraction num/den.               *)
(***************************************************************************)
Logits == {0 - 1, 0, 1}

\* torch.sigmoid, in thousandths
Sigmoid(x) == CASE x < 0 -> 269 [] x = 0 -> 500 [] x > 0 -> 731
SigmoidRow(row) == [c \in DOMAIN row |-> Sigmoid(row[c])]

\* (p > 0.5) as 0/1
BinarizeGeq(p) == IF p >= Threshold THEN 1 ELSE 0
Binarize(p) == IF p > Threshold THEN 1 ELSE 0
BinarizeRow(row) == [c \in DOMAIN row |-> Binarize(row[c])]
BinarizeAll(P) == [r \in DOMAIN P |-> BinarizeRow(P[r])]

\* P == T, elementwise
ElementwiseEq(P, T) == [r \in DOMAIN P |-> [c \in DOMAIN P[r] |-> P[r][c] = T[r][c]]]

\* .all(axis=1)
AnyAxis1(E) == [r \in DOMAIN E |-> \E c \in DOMAIN E[r] : E[r][c]]
AllAxis1(E) == [r \in DOMAIN E |-> \A c \in DOMAIN E[r] : E[r][c]]

\* .sum() and .mean() of a boolean vector
SumTrue(B) == Cardinality({r \in DOMAIN B : B[r]})
Mean(B) == [num |-> SumTrue(B), den |-> Len(B)]

\* (all_preds == all_labels).all(axis=1).mean()
ExactMatch(P, T) == Mean(AllAxis1(ElementwiseEq(P, T)))

\* Fractions num/den in lowest terms, den > 0.
Reduce(n, d) == [num |-> n \div Gcd(n, d), den |-> d \div Gcd(n, d)]
FracMul(a, b) == Reduce(a.num * b.num, a.den * b.den)
FracAdd(a, b) == Reduce(a.num * b.den + b.num * a.den, a.den * b.den)

\* sklearn's guarded division with zero_division=0: n / d, and 0 where d = 0
DivideOne(n, d) == IF d = 0 THEN [num |-> 1, den |-> 1] ELSE Reduce(n, d)
Divide(n, d) == IF d = 0 THEN [num |-> 0, den |-> 1] ELSE Reduce(n, d)
FracDiv(a, b) == Divide(a.num * b.den, a.den * b.num)

\* the cells of a matrix, and of one of its columns (one label)
Cells(P) == {<<r, c>> : r \in DOMAIN P, c \in DOMAIN P[1]}
Column(P, c) == {<<r, c>> : r \in DOMAIN P}

\* sklearn's tp_sum, pred_sum and true_sum over a set of cells
TpSum(P, T, cells) == Cardinality({x \in cells : P[x[1]][x[2]] = 1 /\ T[x[1]][x[2]] = 1})
PredSum(P, cells) == Cardinality({x \in cells : P[x[1]][x[2]] = 1})
TrueSum(T, cells) == Cardinality({x \in cells : T[x[1]][x[2]] = 1})

\* precision, recall and F1 from the sums (precision_recall_fscore_support)
Precision(P, T, cells) == Divide(TpSum(P, T, cells), PredSum(P, cells))
Recall(P, T, cells) == Divide(TpSum(P, T, cells), TrueSum(T, cells))
FScoreArith(pr, rc) == FracMul(FracAdd(pr, rc), [num |-> 1, den |-> 2])
FScore(pr, rc) == FracDiv(FracMul([num |-> 2, den |-> 1], FracMul(pr, rc)), FracAdd(pr, rc))
F1(P, T, cells) == FScore(Precision(P, T, cells), Recall(P, T, cells))

\* average='micro': the sums are pooled over every cell
MicroF1(P, T) == F1(P, T, Cells(P))

\* average='macro': the unweighted mean of the per-label scores
RECURSIVE SumLabelF1(_, _, _)
SumLabelF1(P, T, c) ==
    IF c = 0 THEN [num |-> 0, den |-> 1]
    ELSE FracAdd(SumLabelF1(P, T, c - 1), F1(P, T, Column(P, c)))
MacroF1(P, T) == FracMul(SumLabelF1(P, T, Len(P[1])), [num |-> 1, den |-> Len(P[1])])

\* train_colab_fixed.compute_metrics(preds, labels)
ComputeMetrics(preds, labels) ==
    LET preds_binary == BinarizeAll(preds)
    IN [preds_binary |-> preds_binary,
        micro_f1 |-> MicroF1(preds_binary, labels),
        macro_f1 |-> MacroF1(preds_binary, labels),
        exact_match |-> ExactMatch(preds_binary, labels),
        precision |-> Precision(preds_binary, labels, Cells(preds_binary)),
        recall |-> Recall(preds_binary, labels, Cells(preds_binary))]

InitEval ==
    /\ ev_script \in Scripts
    /\ num_labels \in 1..MaxLabels
    /\ ev_pc = "loop"
    /\ in_logits = <<>> /\ in_labels = <<>>
    /\ all_preds = <<>> /\ all_labels = <<>>
    /\ correct = 0 /\ total = 0
    /\ pred_bin = <<>>
    /\ metrics = [exact |-> [num |-> 0, den |-> 0]]
    /\ IdleMain /\ IdleAcc /\ IdleAux

\* one iteration of the loop of evaluate: the batch's logits and labels
EvalBatch(lg, lb) ==
    /\ ev_pc = "loop"
    /\ Len(in_logits) < MaxExamples
    /\ (Len(in_logits) + 1) * num_labels <= MaxCells
    /\ in_logits' = Append(in_logits, lg)
    /\ in_labels' = Append(in_labels, lb)
    /\ CASE ev_script = "production" ->
              LET preds == BinarizeRow(SigmoidRow(lg))
              IN /\ pred_bin' = <<preds>>
                 /\ all_preds' = Append(all_preds, preds)
                 /\ all_labels' = Append(all_labels, lb)
                 /\ UNCHANGED <<correct, total>>
         [] ev_script = "colab_fixed" ->
              /\ all_preds' = Append(all_preds, SigmoidRow(lg))
              /\ all_labels' = Append(all_labels, lb)
              /\ UNCHANGED <<pred_bin, correct, total>>
         [] ev_script = "mathbert" ->
              LET preds == BinarizeRow(SigmoidRow(lg))
              IN /\ pred_bin' = <<preds>>
                 /\ correct' = correct + SumTrue(AllAxis1(ElementwiseEq(<<preds>>, <<lb>>)))
                 /\ total' = total + 1
                 /\ UNCHANGED <<all_preds, all_labels>>
    /\ UNCHANGED <<ev_script, num_labels, ev_pc, metrics, mainvars, accvars, auxvars>>

\* after the loop: the metrics evaluate returns
EvalFinish ==
    /\ ev_pc = "loop"
    /\ Len(in_logits) >= 1
    /\ ev_pc' = "done"
    /\ CASE ev_script = "production" ->
              /\ metrics' = [exact |-> ExactMatch(all_preds, all_labels)]
              /\ UNCHANGED pred_bin
         [] ev_script = "colab_fixed" ->
              LET m == ComputeMetrics(all_preds, all_labels)
              IN /\ metrics' = [exact |-> m.exact_match]
                 /\ pred_bin' = m.preds_binary
         [] ev_script = "mathbert" ->
              /\ metrics' = [exact |-> [num |-> correct, den |-> total]]
              /\ UNCHANGED pred_bin
    /\ UNCHANGED <<ev_script, num_labels, in_logits, in_labels, all_preds,
                   all_labels, correct, total, mainvars, accvars, auxvars>>

NextEval ==
    \/ \E lg \in [1..num_labels -> Logits], lb \in [1..num_labels -> {0, 1}] :
           EvalBatch(lg, lb)
    \/ EvalFinish

SpecEval == InitEval /\ [][NextEval]_vars

(***************************************************************************)
(* compute_metrics as a function of its arguments: a matrix of             *)
(* probabilities and a 0/1 matrix of labels of the same shape, at least    *)
(* two labels wide.                                                        *)
(***************************************************************************)
MetricProbs == {269, 731}

InitMetrics ==
    /\ ev_script = "colab_fixed"
    /\ num_labels \in 2..MaxLabels
    /\ ev_pc = "metrics"
    /\ in_logits = <<>> /\ in_labels = <<>>
    /\ \E n \in 1..MaxExamples :
         /\ n * num_labels <= MaxCells
         /\ all_preds \in [1..n -> [1..num_labels -> MetricProbs]]
         /\ all_labels \in [1..n -> [1..num_labels -> {0, 1}]]
    /\ correct = 0 /\ total = 0
    /\ pred_bin = <<>>
    /\ metrics = [exact |-> [num |-> 0, den |-> 0]]
    /\ IdleMain /\ IdleAcc /\ IdleAux

\* metrics = compute_metrics(all_preds, all_labels)
ComputeMetricsCall ==
    /\ ev_pc = "metrics"
    /\ LET m == ComputeMetrics(all_preds, all_labels)
       IN /\ metrics' = [micro_f1 |-> m.micro_f1, macro_f1 |-> m.macro_f1,
                         exact_match |-> m.exact_match,
                         precision |-> m.precision, recall |-> m.recall]
          /\ pred_bin' = m.preds_binary
    /\ ev_pc' = "returned"
    /\ UNCHANGED <<ev_script, num_labels, in_logits, in_labels, all_preds,
                   all_labels, correct, total, mainvars, accvars, auxvars>>

NextMetrics == ComputeMetricsCall

SpecMetrics == InitMetrics /\ [][NextMetrics]_vars

(***************************************************************************)
(* Label encoding: the Dataset constructor builds vocab_to_idx from the    *)
(* vocabulary list, __getitem__ encodes the tactic list of one example as  *)
(* a multi-hot vector.  Positions are 1-based here (Python index + 1).     *)
(***************************************************************************)
Tactics == {"x = 0", "y = 0", "x = y"}
UnknownTactic == "use induction"
ItemTactics == {"x = 0", "x = y", UnknownTactic}

SeqsUpTo(S, n) == UNION {[1..k -> S] : k \in 0..n}
VocabLists == SeqsUpTo(Tactics, MaxVocab) \ {<<>>}
NoDuplicates(v) == \A a \in DOMAIN v : \A b \in DOMAIN v : v[a] = v[b] => a = b

\* {v: i for i, v in enumerate(vocab)}: a later entry replaces an earlier one
VocabToIdx(vocab) ==
    [v \in {vocab[k] : k \in DOMAIN vocab} |->
        CHOOSE k \in DOMAIN vocab :
            vocab[k] = v /\ \A j \in DOMAIN vocab : vocab[j] = v => j <= k]

\* torch.zeros(len(self.vocab)) in production_train,
\* torch.zeros(len(self.vocab_to_idx)) in the other scripts
LabelLen(ds) ==
    IF ds.script = "production" THEN Len(ds.vocab)
    ELSE Cardinality(DOMAIN ds.vocab_to_idx)
Zeros(n) == [k \in 1..n |-> 0]

\* label[idx] = 1.0
SetLabelToggle(label, idx) == [label EXCEPT ![idx] = 1 - label[idx]]
SetLabel(label, idx) == [label EXCEPT ![idx] = 1]

InitDataset(lists) ==
    /\ \E sc \in Scripts, v \in lists :
         dataset = [script |-> sc, vocab |-> v, built |-> FALSE, vocab_to_idx |-> <<>>]
    /\ item = NoItem
    /\ IdleCk /\ IdleOut /\ IdleRest
    /\ IdleMain /\ IdleAcc /\ IdleEval

\* Dataset.__init__
DatasetInit ==
    /\ ~dataset.built
    /\ dataset' = [dataset EXCEPT !.built = TRUE,
                                  !.vocab_to_idx = VocabToIdx(dataset.vocab)]
    /\ UNCHANGED <<item, ck, out, mainvars, accvars, evvars, restvars>>

\* __getitem__: the example's tactic list is read and the label zeroed
GetItem(subs) ==
    /\ dataset.built
    /\ item.pc = "none"
    /\ item' = [pc |-> "loop", subs |-> subs, pos |-> 1, label |-> Zeros(LabelLen(dataset))]
    /\ UNCHANGED <<dataset, ck, out, mainvars, accvars, evvars, restvars>>

\* one iteration of "for sub in subs"
GetItemSub ==
    /\ item.pc = "loop"
    /\ item.pos <= Len(item.subs)
    /\ LET sub == item.subs[item.pos]
       IN IF sub \in DOMAIN dataset.vocab_to_idx
          THEN IF dataset.vocab_to_idx[sub] \in DOMAIN item.label
               THEN item' = [item EXCEPT !.label = SetLabel(@, dataset.vocab_to_idx[sub]),
                                         !.pos = @ + 1]
               ELSE item' = [item EXCEPT !.pc = "IndexError"]
          ELSE item' = [item EXCEPT !.pos = @ + 1]
    /\ UNCHANGED <<dataset, ck, out, mainvars, accvars, evvars, restvars>>

\* the encoded example is returned
GetItemReturn ==
    /\ item.pc = "loop"
    /\ item.pos > Len(item.subs)
    /\ item' = [item EXCEPT !.pc = "returned"]
    /\ UNCHANGED <<dataset, ck, out, mainvars, accvars, evvars, restvars>>

NextEncode ==
    \/ DatasetInit
    \/ \E subs \in SeqsUpTo(ItemTactics, MaxSubs) : GetItem(subs)
    \/ GetItemSub
    \/ GetItemReturn

\* the constructor called with any list
SpecVocab == InitDataset(VocabLists) /\ [][NextEncode]_vars

\* the constructor called with a vocabulary as the scripts define it, a list
\* of distinct labels
SpecEncode == InitDataset({v \in VocabLists : NoDuplicates(v)}) /\ [][NextEncode]_vars

(***************************************************************************)
(* Checkpoint files: a run writes model.state_dict() with torch.save, a    *)
(* later run loads the file into its own model with load_state_dict.  A    *)
(* state dict holds the encoder weights and one classifier row per label;  *)
(* each weight is tagged with the run that trained it.                     *)
(***************************************************************************)
DistinctVocabLists == {v \in VocabLists : NoDuplicates(v)}

\* the parameters of a model built for vocabulary v by run r
ModelOf(r, v) ==
    [exists |-> TRUE, encoder |-> r,
     classifier |-> [k \in DOMAIN v |-> [run |-> r, label |-> v[k]]]]

\* load_state_dict(sd) with strict=True: every parameter of matching shape
\* is copied in place, a shape mismatch is collected, and RuntimeError is
\* raised at the end if anything was collected
SameShape(m, sd) == Len(m.classifier) = Len(sd.classifier)
LoadStateDictStrict(m, sd) ==
    [m EXCEPT !.encoder = sd.encoder,
              !.classifier = IF SameShape(m, sd) THEN sd.classifier ELSE @]

InitCkpt ==
    /\ \E sv \in DistinctVocabLists, rv \in DistinctVocabLists :
         ck = [pc |-> "saving", saved_vocab |-> sv, run_vocab |-> rv,
               file |-> NoCkptFile, model |-> ModelOf("saved", sv)]
    /\ IdleEnc /\ IdleOut /\ IdleRest
    /\ IdleMain /\ IdleAcc /\ IdleEval

\* torch.save(model.state_dict(), path) by the run trained on saved_vocab
CkptSave ==
    /\ ck.pc = "saving"
    /\ ck' = [ck EXCEPT !.file = ck.model, !.pc = "saved"]
    /\ UNCHANGED <<encvars, out, mainvars, accvars, evvars, restvars>>

\* a run configured with run_vocab builds its model
CkptNewRun ==
    /\ ck.pc = "saved"
    /\ ck' = [ck EXCEPT !.model = ModelOf("fresh", ck.run_vocab), !.pc = "built"]
    /\ UNCHANGED <<encvars, out, mainvars, accvars, evvars, restvars>>

\* model.load_state_dict(torch.load(path))
CkptLoad ==
    /\ ck.pc = "built"
    /\ ck' = [ck EXCEPT !.model = LoadStateDictStrict(ck.model, ck.file),
                        !.pc = IF SameShape(ck.model, ck.file)
                               THEN "loaded" ELSE "RuntimeError"]
    /\ UNCHANGED <<encvars, out, mainvars, accvars, evvars, restvars>>

NextCkpt == CkptSave \/ CkptNewRun \/ CkptLoad

SpecCkpt == InitCkpt /\ [][NextCkpt]_vars

(***************************************************************************)
(* Export: what each script does after training to its output directory.   *)
(* A script is the sequence of its steps; the exported graph deviates from *)
(* the in-memory model by diff (in units of 1e-5, fixed by the exporter).  *)
(***************************************************************************)
ExportScripts == {"production", "mathbert", "colab_1m", "on_synthetic",
                  "substitution_model", "colab_train"}
ExportDeviations == {0, 5, 20}

ExportSteps(sc) ==
    CASE sc = "production" -> <<"vocab_list", "export">>
      [] sc = "mathbert" -> <<"vocab_list", "export">>
      [] sc = "colab_1m" -> <<"try_export", "vocab_object">>
      [] sc = "on_synthetic" -> <<"try_export">>
      [] sc = "substitution_model" -> <<"vocab_list", "export", "verify">>
      [] sc = "colab_train" -> <<"export", "vocab_list">>

NextStep == IF out.pos < Len(ExportSteps(out.script))
            THEN ExportSteps(out.script)[out.pos + 1] ELSE "end"

\* torch.onnx.export(..., input_names=[...], output_names=[...]) with int64
\* dummy inputs
OnnxArtifactTokenIds(d) ==
    [exists |-> TRUE,
     inputs |-> <<[name |-> "token_ids", dtype |-> "int64"],
                  [name |-> "attention_mask", dtype |-> "int64"]>>,
     outputs |-> <<"logits">>,
     diff |-> d]
OnnxArtifact(d) ==
    [exists |-> TRUE,
     inputs |-> <<[name |-> "input_ids", dtype |-> "int64"],
                  [name |-> "attention_mask", dtype |-> "int64"]>>,
     outputs |-> <<"logits">>,
     diff |-> d]

InitExport ==
    /\ \E sc \in ExportScripts, v \in DistinctVocabLists :
         out = [script |-> sc, vocab |-> v, pos |-> 0,
                onnx |-> NoArtifact, sidecar |-> NoSidecar, report |-> "none"]
    /\ IdleEnc /\ IdleCk /\ IdleRest
    /\ IdleMain /\ IdleAcc /\ IdleEval

\* json.dump(VOCAB, f), or json.dump({"substitutions": VOCAB}, f)
WriteVocab ==
    /\ NextStep \in {"vocab_list", "vocab_object"}
    /\ out' = [out EXCEPT !.pos = @ + 1,
                          !.sidecar = [exists |-> TRUE,
                                       kind |-> IF NextStep = "vocab_list"
                                                THEN "list" ELSE "object",
                                       labels |-> out.vocab]]
    /\ UNCHANGED <<encvars, ck, mainvars, accvars, evvars, restvars>>

\* torch.onnx.export; inside try/except a failure is caught and no ONNX
\* file is left
ExportOnnx(d, fails) ==
    /\ NextStep \in {"export", "try_export"}
    /\ fails => NextStep = "try_export"
    /\ out' = [out EXCEPT !.pos = @ + 1,
                          !.onnx = IF fails THEN NoArtifact ELSE OnnxArtifact(d)]
    /\ UNCHANGED <<encvars, ck, mainvars, accvars, evvars, restvars>>

\* export_to_onnx: the session is run on the dummy input and the output
\* shape printed
VerifyExport ==
    /\ NextStep = "verify"
    /\ out' = [out EXCEPT !.pos = @ + 1, !.report = "Verification passed"]
    /\ UNCHANGED <<encvars, ck, mainvars, accvars, evvars, restvars>>

NextExport ==
    \/ WriteVocab
    \/ \E d \in ExportDeviations, fails \in BOOLEAN : ExportOnnx(d, fails)
    \/ VerifyExport

SpecExport == InitExport /\ [][NextExport]_vars

(***************************************************************************)
(* Properties                                                              *)
(***************************************************************************)
Count(seq, S) == Cardinality({j \in DOMAIN seq : seq[j] \in S})
AfterLoop == pc \in {"after_loop", "done", "crashed"}

\* C1 (step): an evaluation of production_train.main that exceeds best_f1 by
\* more than min_delta sets best_f1 to it, resets patience_counter and
\* records the best state; any other increments patience_counter by exactly
\* 1; the loop is left early exactly when the counter then reaches patience.
C1_EvalStep ==
    (script = "production" /\ pc = "eval" /\ epoch' = epoch + 1) =>
        /\ IF val_metric' > best_metric + min_delta
           THEN /\ best_metric' = val_metric'
                /\ patience_counter' = 0
                /\ best_model_state'.has
                /\ ~stopped_early'
           ELSE /\ patience_counter' = patience_counter + 1
                /\ best_metric' = best_metric
                /\ best_model_state' = best_model_state
                /\ stopped_early' = (patience_counter' >= patience)
        /\ stopped_early' => pc' = "after_loop"

\* C1 (exit): leaving the loop is a normal exit: the restore-best and export
\* step is the next step, it loads the recorded state when there is one, and
\* it exports.
C1_ExitStep ==
    (script = "production" /\ pc = "after_loop" /\ pc' # pc) =>
        /\ pc' = "done"
        /\ exported'
        /\ best_model_state.has => tensors'.w = tensors[best_model_state.weight]

\* C1 (state): once the counter has reached patience no training epoch runs.
C1_Stopped ==
    script = "production" =>
        /\ stopped_early => AfterLoop
        /\ patience_counter >= patience => (stopped_early /\ AfterLoop)
        /\ pc = "after_loop" => ENABLED Finish

\* C1: the early-stopping policy of production_train.main: improvement by
\* more than min_delta records a new best and resets the counter, anything
\* else increments it; the loop stops right after the first evaluation at
\* which the counter reaches patience, and then restores and exports.
C1_EarlyStopping == [][C1_EvalStep /\ C1_ExitStep]_vars /\ []C1_Stopped

C1_Witness ==
    /\ script = "production" /\ stopped_early /\ exported
    /\ epoch < epochs /\ best_model_state.has /\ patience_counter = patience

\* C2 (as stated): with patience 2 and min_delta 0.01 the metric sequence
\* 0.50, 0.50, 0.505, 0.504 stops training after the 4th evaluation and
\* after no earlier one.
C2_StopsAfterFourth ==
    /\ stopped_early => epoch = 4
    /\ AfterLoop => stopped_early

\* C2 (amended): the same sequence stops training after the 3rd evaluation
\* and after no earlier one; the 4th evaluation never runs.
C2_StopsAfterThird ==
    /\ stopped_early => epoch = 3
    /\ AfterLoop => stopped_early
    /\ epoch <= 3

C2_Witness == stopped_early /\ epoch = 3 /\ val_metric = 505 /\ exported

\* C3: the best state recorded by production_train.main keeps the parameter
\* values of the best epoch whatever training follows, and after the
\* restore the parameters are those of the best epoch.
C3_BestSnapshotImmutable ==
    (script = "production" /\ best_model_state.has) =>
        /\ tensors[best_model_state.weight] = best_params
        /\ pc = "done" => Params = best_params

C6_OverflowStep ==
    (script = "colab_fixed" /\ i' = i + 1 /\ Count(ops', {"scaler_step"}) = 1
        /\ step_inf') =>
        /\ tensors' = tensors
        /\ opt_steps' = opt_steps
        /\ sched_steps' = sched_steps
        /\ scale_log2' = scale_log2 - 1
C6_OverflowStepIsNoOp == [][C6_OverflowStep]_vars

\* C7: every optimizer step consumes gradients that were clipped to global
\* norm 1.0 immediately before it (and, under mixed precision, unscaled
\* before that); a step block under mixed precision runs unscale, clip,
\* optimizer step, scaler update, scheduler step, zero_grad in this order.
C7_ClipBeforeStep ==
    /\ opt_steps > 0 =>
         /\ step_grad.e = 0
         /\ step_grad.fin =>
              IF Abs(step_acc) <= MaxNorm * GradUnit
              THEN step_grad.m = step_acc
              ELSE /\ Abs(step_grad.m) = MaxNorm * GradUnit
                   /\ (step_grad.m > 0) = (step_acc > 0)
    /\ \A j \in DOMAIN ops :
         ops[j] \in {"step", "scaler_step"} => (j > 1 /\ ops[j - 1] = "clip")
    /\ (script = "colab_fixed" /\ Len(ops) > 1) =>
         ops = <<"backward", "unscale", "clip", "scaler_step", "update", "sched",
                 "zero_grad">>

C7_Witness ==
    /\ script = "colab_fixed" /\ opt_steps > 1 /\ Len(ops) > 1 /\ ~step_inf
    /\ Abs(step_acc) > MaxNorm * GradUnit /\ step_grad.fin

\* C8: after a training batch with a non-finite loss the run executes no
\* optimizer step, scheduler step, evaluation, checkpoint or export.
C8_NothingAfterNaN ==
    nan_batch =>
        /\ opt_steps' = opt_steps
        /\ sched_steps' = sched_steps
        /\ epoch' = epoch
        /\ ckpts' = ckpts
        /\ best_file' = best_file
        /\ exported' = exported
C8_AbortOnNaN == [][C8_NothingAfterNaN]_vars

AccDone(r) == acc_runs[r].i = NumBatches(store_size, RunCfg[r].bs)

\* the mean of the per-example gradients of the idx-th group of 8 examples
GroupMean(idx) ==
    [x \in 1..store_size |->
        IF 8 * (idx - 1) < x /\ x <= 8 * idx THEN AccDenom \div 8 ELSE 0]

\* C5 (as stated): for every store size, batch_size 8 with K = 1 and
\* batch_size 4 with K = 2 take the same optimizer steps with the same
\* accumulated gradients.
C5_SameUpdates ==
    (AccDone("A") /\ AccDone("B")) => acc_runs.A.steps = acc_runs.B.steps

\* C5 (amended): for every store size that is a multiple of 8, batch_size 8
\* with K = 1 and batch_size 4 with K = 2 take the same number of optimizer
\* steps, and the i-th step of both applies the mean of the per-example
\* gradients of the i-th group of 8 examples.
C5_SameUpdatesMultipleOf8 ==
    (AccDone("A") /\ AccDone("B") /\ store_size % 8 = 0) =>
        /\ Len(acc_runs.A.steps) = store_size \div 8
        /\ Len(acc_runs.B.steps) = store_size \div 8
        /\ \A s \in 1..(store_size \div 8) :
             /\ acc_runs.A.steps[s] = GroupMean(s)
             /\ acc_runs.B.steps[s] = GroupMean(s)

C5_Witness ==
    /\ AccDone("A") /\ AccDone("B") /\ store_size = 16
    /\ Len(acc_runs.B.steps) = 2

\* the logits the latest 0/1 predictions were computed from
PredSource ==
    IF ev_script = "colab_fixed" THEN in_logits ELSE <<in_logits[Len(in_logits)]>>

\* C9 (as stated): a label is predicted present iff sigmoid(logit) >= 0.5,
\* so a label whose logit is exactly 0 is predicted present.
C9_PresentIffGeqHalf ==
    \A r \in DOMAIN pred_bin : \A c \in 1..num_labels :
        (pred_bin[r][c] = 1) <=> (Sigmoid(PredSource[r][c]) >= 500)

\* C9 (amended): a label is predicted present iff sigmoid(logit) > 0.5
\* strictly, so a label whose logit is exactly 0 (P = 0.5) is predicted
\* absent.
C9_PresentIffAboveHalf ==
    /\ \A r \in DOMAIN pred_bin : \A c \in 1..num_labels :
         /\ pred_bin[r][c] \in {0, 1}
         /\ (pred_bin[r][c] = 1) <=> (Sigmoid(PredSource[r][c]) > 500)
         /\ PredSource[r][c] = 0 => pred_bin[r][c] = 0
    /\ ev_script = "production" =>
         \A r \in DOMAIN all_preds : \A c \in 1..num_labels :
             (all_preds[r][c] = 1) <=> (Sigmoid(in_logits[r][c]) > 500)

C9_Witness ==
    /\ ev_script = "colab_fixed" /\ ev_pc = "done"
    /\ \E r \in DOMAIN pred_bin : \E c \in 1..num_labels :
         /\ in_logits[r][c] = 0 /\ pred_bin[r][c] = 0
         /\ \E d \in 1..num_labels : in_logits[r][d] = 1 /\ pred_bin[r][d] = 1

\* the predicted 0/1 row of example r
PredictedRow(r) ==
    [c \in 1..num_labels |-> IF Sigmoid(in_logits[r][c]) > 500 THEN 1 ELSE 0]
RowsMatching == {r \in DOMAIN in_labels : PredictedRow(r) = in_labels[r]}
ExampleCase ==
    /\ in_labels = <<<<1, 0, 1>>, <<0, 1, 0>>>>
    /\ Len(in_logits) = 2
    /\ PredictedRow(1) = <<1, 0, 0>>
    /\ PredictedRow(2) = <<0, 1, 0>>

\* C10: the exact-match metric is the number of examples whose whole
\* predicted 0/1 row equals the whole ground-truth row, divided by the
\* number of examples; it is 0.5 on ground truth [[1,0,1],[0,1,0]] with
\* predictions [[1,0,0],[0,1,0]].
C10_ExactMatch ==
    ev_pc = "done" =>
        /\ metrics.exact.num = Cardinality(RowsMatching)
        /\ metrics.exact.den = Len(in_labels)
        /\ ExampleCase => 2 * metrics.exact.num = metrics.exact.den

C10_Witness ==
    /\ ev_pc = "done" /\ ev_script = "colab_fixed" /\ ExampleCase
    /\ metrics.exact = [num |-> 1, den |-> 2]

\* positive-label outcomes of the binarized predictions over a set of cells
CountTP(cells) == Cardinality({x \in cells : pred_bin[x[1]][x[2]] = 1 /\ all_labels[x[1]][x[2]] = 1})
CountFP(cells) == Cardinality({x \in cells : pred_bin[x[1]][x[2]] = 1 /\ all_labels[x[1]][x[2]] = 0})
CountFN(cells) == Cardinality({x \in cells : pred_bin[x[1]][x[2]] = 0 /\ all_labels[x[1]][x[2]] = 1})
AllCells == {<<r, c>> : r \in DOMAIN all_labels, c \in 1..num_labels}
LabelCells(c) == {<<r, c>> : r \in DOMAIN all_labels}

\* the fraction f equals n / d, and 0 when d = 0
IsQuotient(f, n, d) ==
    /\ f.den > 0
    /\ IF d = 0 THEN f.num = 0 ELSE f.num * d = n * f.den

MetricsExample ==
    /\ all_labels = <<<<1, 0, 1>>, <<0, 1, 0>>>>
    /\ pred_bin = <<<<1, 0, 0>>, <<0, 1, 0>>>>

\* C11: compute_metrics returns micro_f1 = 2TP / (2TP + FP + FN),
\* precision = TP / (TP + FP) and recall = TP / (TP + FN) with TP, FP, FN
\* pooled over all example-by-label cells, each 0 when its denominator is
\* 0; on ground truth [[1,0,1],[0,1,0]] and predictions [[1,0,0],[0,1,0]]
\* micro_f1 is 0.8.
C11_MicroMetrics ==
    ev_pc = "returned" =>
        LET TP == CountTP(AllCells)
            FP == CountFP(AllCells)
            FN == CountFN(AllCells)
        IN /\ IsQuotient(metrics.micro_f1, 2 * TP, 2 * TP + FP + FN)
           /\ IsQuotient(metrics.precision, TP, TP + FP)
           /\ IsQuotient(metrics.recall, TP, TP + FN)
           /\ MetricsExample => metrics.micro_f1.num * 10 = 8 * metrics.micro_f1.den

C11_Witness ==
    /\ ev_pc = "returned" /\ MetricsExample
    /\ metrics.micro_f1 = [num |-> 4, den |-> 5]
    /\ metrics.precision = [num |-> 1, den |-> 1]
    /\ metrics.recall = [num |-> 2, den |-> 3]

\* the per-label F1 of label c as a pair <<numerator, denominator>>: 0 for a
\* label without positive ground truth, 2TP / (2TP + FP + FN) otherwise
NoPositives(c) == \A x \in LabelCells(c) : all_labels[x[1]][x[2]] = 0
LabelF1(c) ==
    IF NoPositives(c) THEN <<0, 1>>
    ELSE <<2 * CountTP(LabelCells(c)),
           2 * CountTP(LabelCells(c)) + CountFP(LabelCells(c)) + CountFN(LabelCells(c))>>

\* the sum of the per-label F1 of labels 1..c as a pair
RECURSIVE SumOfLabelF1(_)
SumOfLabelF1(c) ==
    IF c = 0 THEN <<0, 1>>
    ELSE LET s == SumOfLabelF1(c - 1)
             f == LabelF1(c)
         IN <<s[1] * f[2] + f[1] * s[2], s[2] * f[2]>>

\* C12: in macro_f1 a label with no positive ground-truth instance
\* contributes a per-label F1 of exactly 0 whatever its predictions are, and
\* macro_f1 is the unweighted mean of the N per-label F1 values.
C12_MacroF1 ==
    ev_pc = "returned" =>
        LET s == SumOfLabelF1(num_labels)
        IN /\ metrics.macro_f1.den > 0
           /\ metrics.macro_f1.num * s[2] * num_labels = s[1] * metrics.macro_f1.den

C12_Witness ==
    /\ ev_pc = "returned"
    /\ \E c \in 1..num_labels :
         NoPositives(c) /\ \A x \in LabelCells(c) : pred_bin[x[1]][x[2]] = 0
    /\ \E c \in 1..num_labels :
         NoPositives(c) /\ \E x \in LabelCells(c) : pred_bin[x[1]][x[2]] = 1
    /\ \E c \in 1..num_labels : CountTP(LabelCells(c)) > 0
    /\ metrics.macro_f1 = [num |-> 1, den |-> 3]

\* C13: building the label-to-index mapping from a list with a duplicate
\* entry fails with a configuration error; it never yields a mapping in
\* which some index has no label mapped to it.
C13_DuplicateVocabularyRejected ==
    dataset.built =>
        /\ NoDuplicates(dataset.vocab)
        /\ \A k \in DOMAIN dataset.vocab :
             \E v \in DOMAIN dataset.vocab_to_idx : dataset.vocab_to_idx[v] = k

\* C14: entry i of the encoded label vector is 1 if VOCAB[i] occurs in the
\* example's tactic list and 0 otherwise; a tactic outside the vocabulary
\* sets no entry and raises no error, and repeating a tactic changes
\* nothing.
C14_LabelVector ==
    /\ item.pc # "IndexError"
    /\ item.pc \in {"loop", "returned"} =>
         /\ Len(item.label) = Len(dataset.vocab)
         /\ \A k \in DOMAIN item.label :
              item.label[k] = IF \E j \in 1..(item.pos - 1) : item.subs[j] = dataset.vocab[k]
                              THEN 1 ELSE 0

C14_Witness ==
    /\ item.pc = "returned"
    /\ item.subs = <<"x = y", UnknownTactic, "x = y">>
    /\ dataset.vocab = <<"x = 0", "x = y">>
    /\ item.label = <<0, 1>>

\* C15: loading a checkpoint saved under another vocabulary (another size,
\* or the same size with other labels or another order) raises an error
\* and leaves the model parameters as they were before the load.
C15_CheckpointVocabularyValidated ==
    (ck.pc \in {"loaded", "RuntimeError"} /\ ck.saved_vocab # ck.run_vocab) =>
        /\ ck.pc = "RuntimeError"
        /\ ck.model = ModelOf("fresh", ck.run_vocab)

RunEnded == out.pos > 0 /\ NextStep = "end"

C17_SidecarWithArtifact ==
    (RunEnded /\ out.onnx.exists) =>
        /\ out.sidecar.exists
        /\ out.sidecar.kind = "list"
        /\ out.sidecar.labels = out.vocab

\* C18: the exported artifact's logits differ from the in-memory logits by
\* less than 1e-4, and an export that exceeds the tolerance is reported as
\* an export mismatch instead of being accepted.
C18_ExportRoundTrip ==
    (RunEnded /\ out.script = "substitution_model" /\ out.onnx.exists) =>
        \/ out.onnx.diff < 10
        \/ out.report = "export mismatch"

\* C19: in train_colab_1m.main and train_colab_fixed.main a checkpoint keyed
\* by the epoch number is persisted at the end of every epoch e with
\* e mod save_every_n_epochs = 0 and of no other epoch, whether or not the
\* epoch improved on the best so far; persisting it changes neither the
\* best-so-far metric nor the model parameters.
C19_CheckpointEpochs ==
    ckpts = {e \in 1..epoch : e % SaveEvery(script) = 0}
C19_EvalStep ==
    pc = "eval" =>
        /\ tensors' = tensors
        /\ best_metric' = IF (script = "colab_1m" /\ val_metric' < best_metric)
                             \/ (script = "colab_fixed" /\ val_metric' > best_metric)
                          THEN val_metric' ELSE best_metric
        /\ ckpts' \ ckpts = IF (epoch + 1) % SaveEvery(script) = 0 THEN {epoch + 1} ELSE {}
C19_PeriodicCheckpoint == []C19_CheckpointEpochs /\ [][C19_EvalStep]_vars

C19_Witness ==
    /\ script = "colab_1m" /\ pc = "done"
    /\ ckpts = {5}
    /\ best_metric = 300 /\ val_metric = 400

\* C20: over a run that completes all configured epochs without early
\* stopping, for every number of batches per epoch and every accumulation
\* factor, the schedule has decayed to zero at the last scheduler step: the
\* number of scheduler steps taken equals the total_steps the schedule was
\* constructed with.
C20_ScheduleCompletes ==
    (pc = "done" /\ epoch = epochs /\ ~stopped_early) =>
        sched_steps = TotalSteps(script, L, epochs, K)

\* C21: a stop signal is acted on only at a batch boundary, an optimizer
\* step in progress is completed, and before the process halts a checkpoint
\* consistent with the parameters at that boundary has been persisted.
C21_StopAtBatchBoundary ==
    /\ pc # "interrupted_in_step"
    /\ pc = "interrupted" =>
         /\ best_file.exists
         /\ best_file.v = Params.v

(***************************************************************************)
(* DataLoader(train_dataset, batch_size, shuffle=True, num_workers=2):     *)
(* the iterator of a loader with worker processes.  The main process       *)
(* numbers the batches of the sampler, hands them to the workers round     *)
(* robin, and reads what the workers finished from one shared queue.       *)
(***************************************************************************)
MaxItems == 4
MaxBatchSize == 2
MaxLoaderEpochs == 2
NumWorkers == 2
PrefetchFactor == 2

Smaller(a, b) == IF a < b THEN a ELSE b

\* len(BatchSampler) with drop_last = False
LenBatchSamplerDropLast(n, bs) == n \div bs
LenBatchSampler(n, bs) == (n + bs - 1) \div bs

\* the idx-th index list of the batch sampler (idx from 0)
BatchIndices(perm, bs, idx) ==
    SubSeq(perm, idx * bs + 1, Smaller((idx + 1) * bs, Len(perm)))

\* _try_put_index
TryPutIndex(d) ==
    IF d.send_idx < LenBatchSampler(d.n, d.bs)
    THEN [d EXCEPT !.index_queues[d.next_worker] = Append(@, d.send_idx),
                   !.send_idx = @ + 1,
                   !.next_worker = (@ % NumWorkers) + 1]
    ELSE d

RECURSIVE Prime(_, _)
Prime(d, k) == IF k = 0 THEN d ELSE Prime(TryPutIndex(d), k - 1)

\* _process_data
ProcessData(d, data) ==
    TryPutIndex([d EXCEPT !.rcvd_idx = @ + 1, !.delivered = Append(@, data)])

\* "if idx != self._rcvd_idx" negated
InOrderAny(idx, rcvd) == TRUE
InOrder(idx, rcvd) == idx = rcvd

InitLoader ==
    /\ \E n \in 1..MaxItems, bs \in 1..MaxBatchSize :
         loader = [pc |-> "idle", n |-> n, bs |-> bs, perm |-> <<>>, send_idx |-> 0,
                   rcvd_idx |-> 0, next_worker |-> 1, index_queues |-> <<>>,
                   data_queue |-> <<>>, task_info |-> {}, delivered |-> <<>>,
                   epoch |-> 0, reordered |-> FALSE]
    /\ IdleFilter /\ IdleFeed
    /\ IdleEnc /\ IdleCk /\ IdleOut
    /\ IdleMain /\ IdleAcc /\ IdleEval

\* iter(train_loader) at the start of an epoch: the sampler draws the
\* epoch's permutation and the first batches are handed out
LoaderIter(perm) ==
    /\ loader.pc \in {"idle", "done"}
    /\ loader.epoch < MaxLoaderEpochs
    /\ perm \in Permutations(1..loader.n)
    /\ loader' = Prime([loader EXCEPT !.pc = "iterating", !.perm = perm,
                                      !.send_idx = 0, !.rcvd_idx = 0,
                                      !.index_queues = [w \in 1..NumWorkers |-> <<>>],
                                      !.data_queue = <<>>, !.task_info = {},
                                      !.delivered = <<>>, !.epoch = @ + 1,
                                      !.reordered = FALSE],
                       PrefetchFactor * NumWorkers)
    /\ UNCHANGED <<flt, feed, encvars, ck, out, mainvars, accvars, evvars>>

\* _worker_loop of worker w: one task is taken, fetched and collated, and
\* the result is put on the shared queue
WorkerFetch(w) ==
    /\ loader.pc = "iterating"
    /\ loader.index_queues[w] # <<>>
    /\ LET idx == Head(loader.index_queues[w])
           data == BatchIndices(loader.perm, loader.bs, idx)
       IN loader' = [loader EXCEPT !.index_queues[w] = Tail(@),
                                   !.data_queue = Append(@, [idx |-> idx, data |-> data])]
    /\ UNCHANGED <<flt, feed, encvars, ck, out, mainvars, accvars, evvars>>

\* _next_data up to its next return or its next blocking read
LoaderNext ==
    /\ loader.pc = "iterating"
    /\ IF loader.rcvd_idx >= loader.send_idx
       THEN loader' = [loader EXCEPT !.pc = "done"]
       ELSE IF \E t \in loader.task_info : t.idx = loader.rcvd_idx
       THEN LET t == CHOOSE t \in loader.task_info : t.idx = loader.rcvd_idx
            IN loader' = ProcessData([loader EXCEPT !.task_info = @ \ {t}], t.data)
       ELSE /\ loader.data_queue # <<>>
            /\ LET t == Head(loader.data_queue)
                   d == [loader EXCEPT !.data_queue = Tail(@)]
               IN IF InOrder(t.idx, loader.rcvd_idx)
                  THEN loader' = ProcessData(d, t.data)
                  ELSE loader' = [d EXCEPT !.task_info = @ \cup {t},
                                           !.reordered = TRUE]
    /\ UNCHANGED <<flt, feed, encvars, ck, out, mainvars, accvars, evvars>>

NextLoader ==
    \/ \E perm \in Permutations(1..loader.n) : LoaderIter(perm)
    \/ \E w \in 1..NumWorkers : WorkerFetch(w)
    \/ LoaderNext

SpecLoader == InitLoader /\ [][NextLoader]_vars

RECURSIVE Flatten(_)
Flatten(batches) ==
    IF batches = <<>> THEN <<>> ELSE Head(batches) \o Flatten(Tail(batches))

Delivered == Flatten(loader.delivered)

\* C22: with worker processes, for every interleaving of the workers the
\* batches reach the training loop in the order of the epoch's shuffle,
\* each example is delivered exactly once per epoch, and the last batch of
\* an epoch may be undersized but is never dropped.
C22_OrderedExactlyOnce ==
    loader.pc \in {"iterating", "done"} =>
        /\ Delivered = SubSeq(loader.perm, 1, Len(Delivered))
        /\ \A e \in 1..loader.n :
             Cardinality({k \in DOMAIN Delivered : Delivered[k] = e}) <= 1
        /\ \A k \in DOMAIN loader.delivered :
             /\ Len(loader.delivered[k]) \in 1..loader.bs
             /\ k < Len(loader.delivered) => Len(loader.delivered[k]) = loader.bs
        /\ loader.pc = "done" =>
             \A e \in 1..loader.n : \E k \in DOMAIN Delivered : Delivered[k] = e

C22_Witness ==
    /\ loader.pc = "done"
    /\ loader.epoch = MaxLoaderEpochs
    /\ loader.reordered
    /\ loader.n % loader.bs # 0
    /\ Len(loader.delivered[Len(loader.delivered)]) < loader.bs

(***************************************************************************)
(* Examples without a statement.  train_mathbert and train_colab_fixed     *)
(* read item["statement"] in __getitem__ while the epoch is running;       *)
(* train_substitution_model reads p.get('problem_text', '') while the      *)
(* dataset is built.                                                       *)
(***************************************************************************)
MaxFeed == 3
FeedScripts == {"mathbert", "colab_fixed", "substitution"}

\* an example: whether it has a statement, and whether its tactic list
\* normalises to something non-empty
Examples == [statement : BOOLEAN, subs : BOOLEAN]

RawData == UNION {[1..n -> Examples] : n \in 1..MaxFeed}

InitExamples ==
    /\ \E sc \in FeedScripts, d \in RawData :
         feed = [pc |-> "running", script |-> sc, data |-> d, pos |-> 1,
                 encoded |-> <<>>, skipped |-> 0]
    /\ IdleLoader /\ IdleFilter
    /\ IdleEnc /\ IdleCk /\ IdleOut
    /\ IdleMain /\ IdleAcc /\ IdleEval

\* IMODataset.__getitem__ / MathDataset.__getitem__: item["statement"]
GetItemStatement ==
    /\ feed.pc = "running"
    /\ feed.script \in {"mathbert", "colab_fixed"}
    /\ feed.pos <= Len(feed.data)
    /\ IF feed.data[feed.pos].statement
       THEN feed' = [feed EXCEPT !.encoded = Append(@, feed.pos), !.pos = @ + 1]
       ELSE feed' = [feed EXCEPT !.pc = "KeyError"]
    /\ UNCHANGED <<loader, flt, encvars, ck, out, mainvars, accvars, evvars>>

\* SubstitutionDataset.__init__: one iteration of "for p in problems"
SubstitutionInitItem ==
    /\ feed.pc = "running"
    /\ feed.script = "substitution"
    /\ feed.pos <= Len(feed.data)
    /\ IF feed.data[feed.pos].statement /\ feed.data[feed.pos].subs
       THEN feed' = [feed EXCEPT !.encoded = Append(@, feed.pos), !.pos = @ + 1]
       ELSE feed' = [feed EXCEPT !.pos = @ + 1]
    /\ UNCHANGED <<loader, flt, encvars, ck, out, mainvars, accvars, evvars>>

\* every example has been visited
FeedDone ==
    /\ feed.pc = "running"
    /\ feed.pos > Len(feed.data)
    /\ feed' = [feed EXCEPT !.pc = "done"]
    /\ UNCHANGED <<loader, flt, encvars, ck, out, mainvars, accvars, evvars>>

NextExamples ==
    \/ GetItemStatement
    \/ SubstitutionInitItem
    \/ FeedDone

SpecExamples == InitExamples /\ [][NextExamples]_vars

WithStatement == {k \in DOMAIN feed.data : feed.data[k].statement}

\* C23: an example without a statement is skipped and counted, every other
\* example is still encoded, and the run does not abort because of it.
C23_MalformedSkipped ==
    /\ feed.pc # "KeyError"
    /\ feed.pc = "done" =>
         /\ feed.skipped = Cardinality(DOMAIN feed.data \ WithStatement)
         /\ WithStatement \subseteq {feed.encoded[k] : k \in DOMAIN feed.encoded}

(***************************************************************************)
(* evaluate(model, val_loader, device) inside a run: the call is made      *)
(* after train_epoch, with whatever train_epoch left in the parameters,    *)
(* the gradients, the optimizer and the scheduler.                         *)
(***************************************************************************)
FrameScripts == {"production", "colab_fixed"}

\* outputs = model(...) under torch.no_grad(): no graph is recorded and no
\* .grad is written; g is the gradient a backward pass would have produced
ForwardNoGradAccumulates(s, g) ==
    [s EXCEPT !.grad = Backward(s.grad, g, TRUE, 0), !.ops = Append(s.ops, "forward")]
ForwardNoGrad(s, g) == [s EXCEPT !.ops = Append(s.ops, "forward")]

\* "for batch in loader" of evaluate, nb batches
RECURSIVE EvaluateLoop(_, _, _)
EvaluateLoop(s, g, nb) ==
    IF nb = 0 THEN s ELSE EvaluateLoop(ForwardNoGrad(s, g), g, nb - 1)

IsEvalOps(o) == o # <<>> /\ o[1] = "model.eval"

InitFrame ==
    /\ script \in FrameScripts
    /\ L \in 1..(MaxBatches + 1)
    /\ epochs = MaxEpochs
    /\ K \in 1..MaxK
    /\ patience \in (IF script = "colab_fixed" THEN {MaxEpochs + 1} ELSE 1..MaxPatience)
    /\ min_delta = 0
    /\ InitRun /\ IdleAcc /\ IdleEval /\ IdleAux

\* evaluate: model.eval(), then the loop over the validation batches
Evaluate(g, nb) ==
    /\ pc = "eval"
    /\ ~IsEvalOps(ops)
    /\ Commit(EvaluateLoop([Local EXCEPT !.ops = <<"model.eval">>], g, nb))
    /\ UNCHANGED <<cfgvars, pc, epoch, i, selvars, best_params>>
    /\ UNCHANGED <<accvars, evvars, auxvars>>

\* main: the metrics evaluate returned are used for model selection
SelectAfterEvaluate(f) ==
    /\ IsEvalOps(ops)
    /\ \/ EvalSelectProduction(f)
       \/ EvalSelectColab(f)

NextFrame ==
    \/ StartEpoch
    \/ \E g \in RawGrads : TrainBatch(g, FALSE, FALSE)
    \/ \E g \in RawGrads, nb \in 1..MaxBatches : Evaluate(g, nb)
    \/ \E f \in MetricVals : SelectAfterEvaluate(f)
    \/ Finish

SpecFrame == InitFrame /\ [][NextFrame]_vars

EvaluateStep == pc = "eval" /\ ~IsEvalOps(ops) /\ IsEvalOps(ops')

\* C24: an evaluation pass leaves the training state unchanged: the model
\* parameters, the accumulated gradients, the optimizer state, the
\* scheduler step counter, the best metric and the patience counter after
\* the call equal their values before it.
C24_EvaluateFrame ==
    [][EvaluateStep =>
         UNCHANGED <<tensors, grad, opt_steps, sched_steps, scale_log2, growth_tracker,
                     best_metric, patience_counter>>]_vars

C24_Witness ==
    /\ pc = "eval"
    /\ IsEvalOps(ops) /\ Len(ops) > 2
    /\ grad # ZeroGrad
    /\ opt_steps > 0 /\ sched_steps > 0
    /\ best_metric > 0 /\ patience_counter > 0

(***************************************************************************)
(* The metrics of production_train.evaluate:                               *)
(* precision_recall_fscore_support(all_labels.flatten(),                   *)
(* all_preds.flatten(), average='micro', zero_division=0).  Both arguments *)
(* are 1-D vectors of 0.0 and 1.0, which sklearn takes as a binary target  *)
(* whose classes are the values present; with average='micro' the sums run *)
(* over every class present, class 0 included.                             *)
(***************************************************************************)
\* unique_labels(y_true, y_pred)
PresentLabels(y, p) == {y[k] : k \in DOMAIN y} \cup {p[k] : k \in DOMAIN p}

ClassTp(y, p, c) == Cardinality({k \in DOMAIN y : y[k] = c /\ p[k] = c})
ClassPred(p, c) == Cardinality({k \in DOMAIN p : p[k] = c})
ClassTrue(y, c) == Cardinality({k \in DOMAIN y : y[k] = c})

\* the sum over the classes present of a per-class count
MicroSum(count, labels) ==
    (IF 0 \in labels THEN count[0] ELSE 0) + (IF 1 \in labels THEN count[1] ELSE 0)

ProductionMetrics(P, T) ==
    LET y == Flatten(T)
        p == Flatten(P)
        labels == PresentLabels(y, p)
        tp_sum == MicroSum([c \in {0, 1} |-> ClassTp(y, p, c)], labels)
        pred_sum == MicroSum([c \in {0, 1} |-> ClassPred(p, c)], labels)
        true_sum == MicroSum([c \in {0, 1} |-> ClassTrue(y, c)], labels)
        precision == Divide(tp_sum, pred_sum)
        recall == Divide(tp_sum, true_sum)
    IN [accuracy |-> ExactMatch(P, T),
        precision |-> precision,
        recall |-> recall,
        f1 |-> FScore(precision, recall)]

\* all_preds holds the thresholded predictions, all_labels the ground truth
InitProductionMetrics ==
    /\ ev_script = "production"
    /\ num_labels \in 2..MaxLabels
    /\ ev_pc = "metrics"
    /\ in_logits = <<>> /\ in_labels = <<>>
    /\ \E n \in 1..MaxExamples :
         /\ n * num_labels <= MaxCells
         /\ all_preds \in [1..n -> [1..num_labels -> {0, 1}]]
         /\ all_labels \in [1..n -> [1..num_labels -> {0, 1}]]
    /\ correct = 0 /\ total = 0
    /\ pred_bin = <<>>
    /\ metrics = [exact |-> [num |-> 0, den |-> 0]]
    /\ IdleMain /\ IdleAcc /\ IdleAux

\* evaluate, from "Calculate metrics" to its return
ProductionMetricsCall ==
    /\ ev_pc = "metrics"
    /\ metrics' = ProductionMetrics(all_preds, all_labels)
    /\ pred_bin' = all_preds
    /\ ev_pc' = "returned"
    /\ UNCHANGED <<ev_script, num_labels, in_logits, in_labels, all_preds,
                   all_labels, correct, total, mainvars, accvars, auxvars>>

NextProductionMetrics == ProductionMetricsCall

SpecProductionMetrics == InitProductionMetrics /\ [][NextProductionMetrics]_vars

\* C25: production_train.evaluate reports the micro-averaged positive-label
\* metrics, f1 = 2TP / (2TP + FP + FN) over all example-by-label cells: 0.8
\* on ground truth [[1,0,1],[0,1,0]] and predictions [[1,0,0],[0,1,0]]; a
\* cell where prediction and ground truth are both 0 does not raise the
\* score.
C25_MicroPositiveMetrics ==
    ev_pc = "returned" =>
        LET TP == CountTP(AllCells)
            FP == CountFP(AllCells)
            FN == CountFN(AllCells)
        IN /\ IsQuotient(metrics.f1, 2 * TP, 2 * TP + FP + FN)
           /\ IsQuotient(metrics.precision, TP, TP + FP)
           /\ IsQuotient(metrics.recall, TP, TP + FN)
           /\ MetricsExample => metrics.f1.num * 10 = 8 * metrics.f1.den

\* what the call returns on the example
ExampleF1IsFiveSixths ==
    (ev_pc = "returned" /\ MetricsExample) => metrics.f1 = [num |-> 5, den |-> 6]

\* gradients of micro-batches that were accumulated into .grad and have not
\* been used by an optimizer step
PendingMicroBatches == grad.n

\* C26: for every L and K >= 1 the gradient of every micro-batch of an epoch
\* is included in exactly one optimizer step: at the end of the epoch's
\* batches none is left unapplied, to be discarded by the next zero_grad or
\* carried into a later epoch.
C26_EveryMicroBatchStepped ==
    (script \in {"production", "colab_fixed"}
        /\ pc \in {"eval", "epoch_start", "after_loop", "done"}) =>
        PendingMicroBatches = 0

(***************************************************************************)
(* The schedule of every script with a per-step scheduler.                 *)
(***************************************************************************)
AllScripts == Scripts \cup {"colab_1m"}

\* CONFIG["warmup_ratio"], in percent
WarmupRatioPct(sc) == IF sc = "mathbert" THEN 6 ELSE 10

\* warmup_steps = int(total_steps * CONFIG["warmup_ratio"])
WarmupSteps(sc, l, e, k) == (TotalSteps(sc, l, e, k) * WarmupRatioPct(sc)) \div 100

InitSchedule ==
    /\ script \in AllScripts
    /\ L \in 1..(MaxBatches + 1)
    /\ epochs = MaxEpochs
    /\ K \in (IF script \in PerBatchScripts THEN {1} ELSE 1..MaxK)
    /\ patience \in (IF script \in {"colab_fixed", "colab_1m"}
                     THEN {MaxEpochs + 1} ELSE 1..MaxPatience)
    /\ min_delta = 0
    /\ InitRun /\ IdleAcc /\ IdleEval /\ IdleAux

NextSchedule ==
    \/ StartEpoch
    \/ \E g \in RawGrads, ovf \in BOOLEAN : TrainBatch(g, FALSE, ovf)
    \/ \E f \in MetricVals : EvalSelectProduction(f)
    \/ \E f \in MetricVals : EvalSelectColab(f)
    \/ \E f \in MetricVals : EvalSelectMathbert(f)
    \/ \E loss \in LossVals : EvalSelectColab1m(loss)
    \/ Finish

SpecSchedule == InitSchedule /\ [][NextSchedule]_vars

EarlyStoppingScripts == {"production", "mathbert"}

\* the loop is at an epoch boundary or inside an epoch it has started
EpochRunning == pc \in {"batches", "eval"} \/ (pc = "epoch_start" /\ epoch > 0)

C28_Bounds ==
    script \in EarlyStoppingScripts =>
        /\ 0 <= patience_counter /\ patience_counter <= patience
        /\ EpochRunning => patience_counter < patience
        /\ epoch = 0 => patience_counter = 0

C28_Evaluation ==
    (script \in EarlyStoppingScripts /\ pc = "eval" /\ epoch' = epoch + 1) =>
        /\ best_metric' >= best_metric
        /\ IF best_metric' # best_metric
           THEN patience_counter' = 0
           ELSE patience_counter' = patience_counter + 1

\* C28: in the early-stopping loops of production_train.main and
\* train_mathbert.main, at every epoch boundary 0 <= patience_counter <=
\* patience, with patience_counter < patience whenever another epoch is
\* started; the best metric never decreases; and patience_counter is the
\* number of consecutive evaluations since the last one that updated the
\* best metric (0 at the start and after an update, one more after every
\* other evaluation).
C28_PatienceCounter == []C28_Bounds /\ [][C28_Evaluation]_vars

C28_Witness ==
    /\ script = "mathbert" /\ pc = "epoch_start" /\ epoch = 2
    /\ patience = 2 /\ patience_counter = 1 /\ best_metric > 0

\* C29: in train_mathbert.main, for every sequence of validation accuracies
\* (all zeros included), when the epoch loop ends a best-model checkpoint
\* has been written during this run by the best epoch, so the final load
\* succeeds and restores this run's best parameters before export.
C29_BestCheckpointLoaded ==
    script = "mathbert" =>
        /\ pc # "crashed"
        /\ pc \in {"after_loop", "done"} =>
             /\ best_file.exists
             /\ best_file.v = best_params.v
        /\ pc = "done" => (Params = best_params /\ exported)

(***************************************************************************)
(* filter_imo_problems.filter_problems                                     *)
(***************************************************************************)
MaxProblems == 3
MaxCount == 3
Categories == {"functional_equation", "other"}
Years == {1990, 2000}

\* the problems of an input list; id is the position in the list and
\* stands for the identity of the object
ProblemLists ==
    UNION {{[k \in 1..n |-> [id |-> k, category |-> c[k], year |-> y[k]]] :
              c \in [1..n -> Categories], y \in [1..n -> Years]} : n \in 0..MaxProblems}

\* categories: None or a list of names
CategoryArgs == {[none |-> TRUE, val |-> {}]} \cup {[none |-> FALSE, val |-> v] : v \in SUBSET Categories}

\* years: None or a pair (first, last)
YearArgs ==
    {[none |-> TRUE, lo |-> 0, hi |-> 0]}
        \cup {[none |-> FALSE, lo |-> a, hi |-> b] : a \in Years, b \in Years}

\* "if categories": None and the empty list are false
TruthyCategories(c) == ~c.none /\ c.val # {}

\* "if years": None is false, a pair is true
TruthyYears(y) == ~y.none

\* the loop of filter_problems from position pos on
RECURSIVE FilterLoop(_, _, _, _, _, _)
FilterLoop(problems, pos, filtered, categories, years, max_count) ==
    IF pos > Len(problems) THEN filtered
    ELSE LET p == problems[pos]
         IN IF TruthyCategories(categories) /\ p.category \notin categories.val
            THEN FilterLoop(problems, pos + 1, filtered, categories, years, max_count)
            ELSE IF TruthyYears(years) /\ (p.year < years.lo \/ p.year > years.hi)
            THEN FilterLoop(problems, pos + 1, filtered, categories, years, max_count)
            ELSE LET appended == Append(filtered, p)
                 IN IF Len(appended) >= max_count
                    THEN appended
                    ELSE FilterLoop(problems, pos + 1, appended, categories, years,
                                    max_count)

FilterProblems(problems, categories, years, max_count) ==
    FilterLoop(problems, 1, <<>>, categories, years, max_count)

InitFilter ==
    /\ \E ps \in ProblemLists, c \in CategoryArgs, y \in YearArgs, m \in 0..MaxCount :
         flt = [pc |-> "call", problems |-> ps, categories |-> c, years |-> y,
                max_count |-> m, filtered |-> <<>>]
    /\ IdleLoader /\ IdleFeed
    /\ IdleEnc /\ IdleCk /\ IdleOut
    /\ IdleMain /\ IdleAcc /\ IdleEval

\* filtered = filter_problems(problems, categories, years, max_count)
FilterCall ==
    /\ flt.pc = "call"
    /\ flt' = [flt EXCEPT !.pc = "returned",
                          !.filtered = FilterProblems(flt.problems, flt.categories,
                                                      flt.years, flt.max_count)]
    /\ UNCHANGED <<loader, feed, encvars, ck, out, mainvars, accvars, evvars>>

NextFilter == FilterCall

SpecFilter == InitFilter /\ [][NextFilter]_vars

\* C30: for every input list, category list, year range and max_count >= 0
\* (max_count = 0 included) filter_problems returns at most max_count
\* problems; the result is a subsequence of the input in input order; every
\* returned problem has a category in categories (when given) and a year
\* within years (when given).
C30_FilterProblems ==
    flt.pc = "returned" =>
        /\ Len(flt.filtered) <= flt.max_count
        /\ \A k \in DOMAIN flt.filtered :
             /\ flt.filtered[k].id \in DOMAIN flt.problems
             /\ flt.filtered[k] = flt.problems[flt.filtered[k].id]
             /\ k > 1 => flt.filtered[k - 1].id < flt.filtered[k].id
             /\ ~flt.categories.none => flt.filtered[k].category \in flt.categories.val
             /\ ~flt.years.none =>
                  (flt.years.lo <= flt.filtered[k].year /\ flt.filtered[k].year <= flt.years.hi)

\* the same with max_count >= 1 and a non-empty category list
FilterProblemsPositiveCount ==
    (flt.pc = "returned" /\ flt.max_count >= 1
        /\ (flt.categories.none \/ flt.categories.val # {})) =>
        /\ Len(flt.filtered) <= flt.max_count
        /\ \A k \in DOMAIN flt.filtered :
             /\ flt.filtered[k] = flt.problems[flt.filtered[k].id]
             /\ k > 1 => flt.filtered[k - 1].id < flt.filtered[k].id
             /\ ~flt.categories.none => flt.filtered[k].category \in flt.categories.val
             /\ ~flt.years.none =>
                  (flt.years.lo <= flt.filtered[k].year /\ flt.filtered[k].year <= flt.years.hi)

=============================================================================
